---- MODULE Spec2Model ----
(***************************************************************************)
(* Model of the asyncio q connection (qpython/qaioconnection.py), its      *)
(* frame writer (qaiowriter.py) and frame reader (qaioreader.py).          *)
(*                                                                         *)
(* One coroutine step of the model runs from one suspension point of the   *)
(* code (an await that may yield to the event loop) to the next one.  The  *)
(* peer and the event loop are the environment.                            *)
(***************************************************************************)
EXTENDS Integers, Sequences, FiniteSets, TLC

\* ------------------------------------------------------------- bounds
MaxOps      == 3      \* calls of the public API made by all callers together
MaxPeerByte == 4      \* the peer answers the handshake with a byte of 0..MaxPeerByte
MaxQuery    == 2      \* queries are the expressions 1..MaxQuery

\* ---------------------------------------------------- program constants
MAX_PROTOCOL_VERSION == 3
HEADER_LEN           == 8
ASYNC                == 0
SYNC                 == 1
RESPONSE             == 2
MAX_PARAMETERS       == 8
COLON                == 58
Q_ERROR              == 128

Tasks        == {1, 2}
Queries      == 1..MaxQuery
PeerBytes    == 0..MaxPeerByte
ParamCounts  == {0, MAX_PARAMETERS, MAX_PARAMETERS + 1}
MsgKinds     == {ASYNC, SYNC, RESPONSE}
\* user names given to the constructor, as code points: "u" and the euro sign
Usernames    == {<<117>>, <<8364>>}
Hosts        == {"", "localhost"}
None         == 0
NoVersion    == -1

VARIABLES
    host,               \* Connection.host ("" is None)
    username,           \* Connection.username, code points
    s_reader,           \* QConnection._s_reader: stream id, None
    s_writer,           \* QConnection._s_writer: stream id, None
    protocol_version,   \* Connection._protocol_version, NoVersion before a handshake
    writer,             \* QConnection._writer: [stream, ver], stream = None if unset
    reader,             \* QConnection._reader: [stream], stream = None if unset
    streams,            \* the transports asyncio.open_connection has returned
    pc,                 \* per caller: the await it is suspended at, or "idle"
    op,                 \* per caller: the public call it is in
    loc,                \* per caller: the locals of the call
    res,                \* per caller: how its last call ended
    nops                \* calls made so far

vars == <<host, username, s_reader, s_writer, protocol_version, writer, reader,
          streams, pc, op, loc, res, nops>>

conn == <<s_reader, s_writer, protocol_version, writer, reader>>

\* ------------------------------------------------------------ helpers
Min(a, b) == IF a < b THEN a ELSE b

Take(s, n) == SubSeq(s, 1, Min(n, Len(s)))

Drop(s, n) == SubSeq(s, Min(n, Len(s)) + 1, Len(s))

\* str.encode('latin-1'): one byte per code point, UnicodeEncodeError above 255
Encodable(str) == \A i \in 1..Len(str) : str[i] <= 255

\* credentials of the handshake: username + ':' + password, password unset
Credentials == username \o <<COLON>>

\* struct.pack('i', n), little-endian host
LE32(n) == <<n % 256, (n \div 256) % 256, (n \div 65536) % 256, (n \div 16777216) % 256>>

\* the value codec: query q is an expression of q characters; a call with
\* parameters sends the list [query] + parameters
Expression(q) == [i \in 1..q |-> q]

Encode(q, n) ==
    IF n = 0 THEN Expression(q) ELSE <<0, n + 1>> \o Expression(q) \o [i \in 1..n |-> 0]

\* Writer.write: 8-byte header with the total size, then the encoded value
FrameOf(kind, payload) ==
    <<1, kind, 0, 0>> \o LE32(HEADER_LEN + Len(payload)) \o payload

\* BytesIO.read(): the buffer from its position, which Writer.write leaves past
\* the header it fills in last
BufferFromPosition(buf) == Drop(buf, HEADER_LEN)

\* the bytes QWriter.write hands to the stream: self._buffer.getvalue(), the
\* whole buffer whatever the position in it
BufferGetValue(buf) == buf

\* BytesBuffer.get_uint / get_long under the declared endianness, as the pair
\* <<high part, low 16 bits>>; "<" is little-endian
OrderLE(b, endianness) ==
    IF endianness = "<" THEN b ELSE [i \in 1..Len(b) |-> b[Len(b) + 1 - i]]

Lo16(le) == le[1] + 256 * le[2]

HiZero(le) == \A i \in 3..Len(le) : le[i] = 0

\* 2^16: a length of at least this many bytes is more than any buffer holds
Huge == 256 * 256

\* ------------------------------------------------------------ streams
\* one transport as asyncio.open_connection returns it (StreamReader, StreamWriter)
\*   st      "open", "closing" (close() called), "closed" (connection lost)
\*   out     the bytes the transport accepted from the client, in order
\*   inb     the bytes the peer has sent that no read() has returned yet; how
\*           many of them have arrived is decided when a read() returns
\*   eof     the peer closed its side, or the transport is closed
\*   exc     the connection was lost with an error
\*   waiter  the caller suspended in read(), None if none
\*   hs      the peer's answer to the handshake: "none", "byte", "eof"
\*   hsbyte  the byte it answered with
\*   answered  SYNC requests the peer has answered
\*   ucloses   calls of QConnection.close that operated on the stream
\*   sent      the messages the peer has sent of its own accord
NewStream ==
    [st |-> "open", out |-> <<>>, inb |-> <<>>, eof |-> FALSE,
     exc |-> FALSE, waiter |-> None, hs |-> "none", hsbyte |-> 0, answered |-> 0,
     ucloses |-> 0, sent |-> <<>>]

StreamIds == 1..Len(streams)

\* StreamWriter.write: a transport that is closing drops the data
StreamWrite(S, bytes) ==
    IF S.st = "open" THEN [S EXCEPT !.out = @ \o bytes] ELSE S

\* StreamWriter.close
StreamClose(S) == [S EXCEPT !.st = IF @ = "open" THEN "closing" ELSE @]

\* StreamWriter.drain raises once the connection is lost
DrainFails(S) == S.exc \/ S.st = "closed"

\* the legacy frame of _initialize: credentials and a single zero byte, no version byte
HandshakeLegacy == Credentials \o <<0>>

\* the first frame of _initialize: credentials + bytes([MAX_PROTOCOL_VERSION, 0])
HandshakeFrame == Credentials \o <<MAX_PROTOCOL_VERSION, 0>>

\* the frames on the wire after the handshake frame, as far as they parse
RECURSIVE ParseFrames(_)
ParseFrames(b) ==
    IF Len(b) < HEADER_LEN THEN <<>>
    ELSE LET le   == SubSeq(b, 5, 8)
             size == Lo16(le)
         IN  IF ~HiZero(le) \/ b[4] # 0 \/ size < HEADER_LEN \/ size > Len(b) THEN <<>>
             ELSE <<[kind |-> b[2], payload |-> SubSeq(b, HEADER_LEN + 1, size)]>>
                  \o ParseFrames(Drop(b, size))

RECURSIVE FramesLen(_)
FramesLen(fs) ==
    IF fs = <<>> THEN 0 ELSE HEADER_LEN + Len(Head(fs).payload) + FramesLen(Tail(fs))

Requests(S) == ParseFrames(Drop(S.out, Len(HandshakeFrame)))

SyncRequests(S) == SelectSeq(Requests(S), LAMBDA f : f.kind = SYNC)

\* ------------------------------------------------------------ callers
LocInit ==
    [q |-> 0, n |-> 0, ws |-> None, rs |-> None, phase |-> "none", need |-> 0,
     endianness |-> "<", type |-> 0, size |-> [hi |-> 0, lo |-> 0], compr |-> 0,
     usize |-> 0, woken |-> FALSE, mine |-> {}, hsreads |-> <<>>,
     notopen |-> FALSE, wrote |-> FALSE, header |-> <<>>]

\* how a call ended: err is "ok" or the exception raised
\*   val      the value returned
\*   q, n     the query and the number of parameters of the call
\*   unexp    sendSync: the kind of the message received in place of a RESPONSE
\*   mine     open: the transports the call established
\*   hsreads  open: the number of bytes each handshake read returned
\*   touched  close: the call operated on a stream
\*   notopen  query: the connection was not open when the call was made
\*   wrote    query: the call put bytes on the wire
\*   header   receive: the bytes read_header decoded, if the message went on
\*            to read_data
Result(o, err) ==
    [op |-> o, err |-> err, val |-> <<>>, q |-> 0, n |-> 0, unexp |-> -1,
     mine |-> {}, hsreads |-> <<>>, touched |-> FALSE, notopen |-> FALSE,
     wrote |-> FALSE, header |-> <<>>]

ResInit == Result("none", "none")

\* the result of the call caller t is in
ResOf(t, err) ==
    [Result(op[t], err) EXCEPT !.q = loc[t].q, !.n = loc[t].n, !.mine = loc[t].mine,
        !.hsreads = loc[t].hsreads, !.notopen = loc[t].notopen,
        !.wrote = loc[t].wrote, !.header = loc[t].header]

is_connected == s_writer # None

\* the lifecycle of the connection: open after a successful handshake on the
\* current stream, until close() is called
NotOpen ==
    \/ s_writer = None
    \/ writer.stream # s_writer
    \/ streams[s_writer].ucloses > 0

\* the call of caller t returns or raises
ReturnFrom(t, r) ==
    /\ pc' = [pc EXCEPT ![t] = "idle"]
    /\ op' = [op EXCEPT ![t] = "none"]
    /\ res' = [res EXCEPT ![t] = r]

Return(t, r) ==
    /\ ReturnFrom(t, r)
    /\ loc' = [loc EXCEPT ![t] = LocInit]

\* caller t is suspended at the await named p, in the call o, with locals l
Suspend(t, o, p, l) ==
    /\ pc' = [pc EXCEPT ![t] = p]
    /\ op' = [op EXCEPT ![t] = o]
    /\ loc' = [loc EXCEPT ![t] = l]
    /\ res' = [res EXCEPT ![t] = ResInit]

\* an idle caller makes one more call
MayCall(t) ==
    /\ pc[t] = "idle"
    /\ nops < MaxOps
    /\ nops' = nops + 1

Init ==
    /\ host \in Hosts
    /\ username \in Usernames
    /\ s_reader = None
    /\ s_writer = None
    /\ protocol_version = NoVersion
    /\ writer = [stream |-> None, ver |-> NoVersion]
    /\ reader = [stream |-> None]
    /\ streams = <<>>
    /\ pc = [t \in Tasks |-> "idle"]
    /\ op = [t \in Tasks |-> "none"]
    /\ loc = [t \in Tasks |-> LocInit]
    /\ res = [t \in Tasks |-> ResInit]
    /\ nops = 0

\* ------------------------------------------------- open and the handshake
\* struct.unpack('B', response)[0]: the peer's byte as it came
NegotiatedUnclamped(b) == b

\* min(struct.unpack('B', response)[0], self.MAX_PROTOCOL_VERSION)
NegotiatedVersion(b) == Min(b, MAX_PROTOCOL_VERSION)

\* an open() that tests nothing
OpenUnguarded == TRUE

\* open: if not self._s_writer
OpenNeeded == s_writer = None

\* open(), up to its first await: a no-op once _s_writer is set
Call_open(t) ==
    /\ MayCall(t)
    /\ IF ~OpenNeeded
       THEN Return(t, Result("open", "ok"))
       ELSE IF host = ""
       THEN Return(t, Result("open", "QConnectionException"))
       ELSE Suspend(t, "open", "open_conn", LocInit)
    /\ UNCHANGED <<host, username, conn, streams>>

\* _init_socket: asyncio.open_connection returns a transport; _initialize then
\* encodes the credentials, writes the version-offering frame and awaits drain()
InitSocketDone(t) ==
    /\ pc[t] = "open_conn"
    /\ LET id == Len(streams) + 1 IN
       /\ s_reader' = id
       /\ s_writer' = id
       /\ IF ~Encodable(Credentials)
          THEN /\ streams' = Append(streams, NewStream)
               /\ Return(t, [Result("open", "UnicodeEncodeError") EXCEPT !.mine = {id}])
          ELSE /\ streams' = Append(streams, StreamWrite(NewStream, HandshakeFrame))
               /\ Suspend(t, "open", "hs_drain", [LocInit EXCEPT !.ws = id, !.mine = {id}])
    /\ UNCHANGED <<host, username, protocol_version, writer, reader, nops>>

\* _init_socket: asyncio.open_connection raises
InitSocketFail(t) ==
    /\ pc[t] = "open_conn"
    /\ s_reader' = None
    /\ s_writer' = None
    /\ Return(t, Result("open", "OSError"))
    /\ UNCHANGED <<host, username, protocol_version, writer, reader, streams, nops>>

\* _initialize: drain() of the handshake frame is over (on a closing transport
\* it first lets the event loop finish the close); read(1) is called on the
\* stream _s_reader names now
HsDrainDone(t) ==
    /\ pc[t] = "hs_drain"
    /\ streams[loc[t].ws].st # "closing"
    /\ IF DrainFails(streams[loc[t].ws])
       THEN Return(t, ResOf(t, "ConnectionResetError"))
       ELSE IF s_reader = None
       THEN Return(t, ResOf(t, "AttributeError"))
       ELSE Suspend(t, "open", "hs_read", [loc[t] EXCEPT !.rs = s_reader, !.need = 1])
    /\ UNCHANGED <<host, username, conn, streams, nops>>

\* StreamReader.read has something to return to caller t
ReadReady(t) ==
    LET S == streams[loc[t].rs] IN
    \/ S.exc
    \/ S.eof
    \/ loc[t].need >= 0 /\ (loc[t].woken \/ S.inb # <<>>)

\* StreamReader.read(n) returns the bytes that have arrived, at most n of them
\* and at least one unless the buffer is empty; if n < 0, all up to EOF
ReadCounts(S, n) ==
    IF n < 0 THEN {Len(S.inb)}
    ELSE IF S.inb = <<>> THEN {0}
    ELSE 1..Min(n, Len(S.inb))

\* the stream after read() returned k bytes to caller t
AfterRead(t, S, k) ==
    [S EXCEPT !.inb = Drop(@, k),
              !.waiter = IF k > 0 \/ @ = t THEN None ELSE @]

\* the locals after read() returned k bytes to caller t, whose locals become l:
\* another caller that waited for these bytes was woken and finds them gone
LocAfterRead(t, S, k, l) ==
    IF k > 0 /\ S.waiter \notin {None, t}
    THEN [loc EXCEPT ![t] = l, ![S.waiter].woken = TRUE]
    ELSE [loc EXCEPT ![t] = l]

\* StreamReader.read with nothing to return: the caller becomes the stream's
\* waiter, and read raises RuntimeError if another caller already is
AwaitRead(t) ==
    /\ pc[t] \in {"hs_read", "rd"}
    /\ ~ReadReady(t)
    /\ streams[loc[t].rs].waiter # t
    /\ IF streams[loc[t].rs].waiter # None
       THEN /\ Return(t, ResOf(t, "RuntimeError"))
            /\ UNCHANGED streams
       ELSE /\ streams' = [streams EXCEPT ![loc[t].rs].waiter = t]
            /\ UNCHANGED <<pc, op, loc, res>>
    /\ UNCHANGED <<host, username, conn, nops>>

\* _initialize from line 131: the response has arrived.  One byte: the version is
\* negotiated and open() binds the writer and the reader.  No byte: the code
\* awaits the result of StreamWriter.close(), which closes the transport and
\* returns None, so the await raises TypeError; the legacy retry is not reached.
HsReadDone(t) ==
    /\ pc[t] = "hs_read"
    /\ ReadReady(t)
    /\ \E k \in ReadCounts(streams[loc[t].rs], 1) :
       LET rs       == loc[t].rs
           S        == streams[rs]
           response == Take(S.inb, k)
           read     == [streams EXCEPT ![rs] = AfterRead(t, S, k)]
           raise(e) == ReturnFrom(t, [ResOf(t, e) EXCEPT
                                         !.hsreads = Append(@, Len(response))])
       IN  IF S.exc
           THEN /\ ReturnFrom(t, ResOf(t, "ConnectionResetError"))
                /\ loc' = [loc EXCEPT ![t] = LocInit]
                /\ UNCHANGED <<conn, streams>>
           ELSE /\ loc' = LocAfterRead(t, S, k, LocInit)
                /\ IF Len(response) = 1
                   THEN /\ protocol_version' = NegotiatedVersion(response[1])
                        /\ writer' = [stream |-> s_writer, ver |-> protocol_version']
                        /\ reader' = [stream |-> s_reader]
                        /\ streams' = read
                        /\ raise("ok")
                        /\ UNCHANGED <<s_reader, s_writer>>
                   ELSE IF s_writer = None
                   THEN /\ streams' = read
                        /\ raise("AttributeError")
                        /\ UNCHANGED conn
                   ELSE /\ streams' = [read EXCEPT ![s_writer] = StreamClose(@)]
                        /\ raise("TypeError")
                        /\ UNCHANGED conn
    /\ UNCHANGED <<host, username, nops>>

\* ------------------------------------------------------------------ close
\* close(), up to wait_closed(): _s_writer is not cleared
Call_close(t) ==
    /\ MayCall(t)
    /\ IF s_writer # None
       THEN /\ streams' = [streams EXCEPT ![s_writer] =
                              [StreamClose(@) EXCEPT !.ucloses = @ + 1]]
            /\ Suspend(t, "close", "wait_closed", [LocInit EXCEPT !.ws = s_writer])
       ELSE /\ Return(t, Result("close", "ok"))
            /\ UNCHANGED streams
    /\ UNCHANGED <<host, username, conn>>

\* close(): wait_closed() is over once the connection is lost
WaitClosedDone(t) ==
    /\ pc[t] = "wait_closed"
    /\ streams[loc[t].ws].st = "closed"
    /\ Return(t, [ResOf(t, IF streams[loc[t].ws].exc THEN "ConnectionResetError"
                           ELSE "ok") EXCEPT !.touched = TRUE])
    /\ UNCHANGED <<host, username, conn, streams, nops>>

\* ------------------------------------------------ query and the frame writer
\* QWriter.write called without await (sendSync, line 242): the call only makes
\* a coroutine object; none of the body runs and nothing reaches the stream
NotAwaited(S, buf) == S

\* a guard that lets one parameter more through
TooManyParametersOffByOne(n) == n > MAX_PARAMETERS + 1

\* query: parameters and len(parameters) > 8
TooManyParameters(n) == n > MAX_PARAMETERS

\* query(), up to the drain() of QWriter.write: the frame is built and handed
\* to the stream in one piece
QueryStart(t, o, kind, q, n) ==
    LET r(e) == [Result(o, e) EXCEPT !.q = q, !.n = n, !.notopen = NotOpen]
    IN  IF s_writer = None
        THEN Return(t, r("QConnectionException")) /\ UNCHANGED streams
        ELSE IF TooManyParameters(n)
        THEN Return(t, r("QWriterException")) /\ UNCHANGED streams
        ELSE IF writer.stream = None
        THEN Return(t, r("AttributeError")) /\ UNCHANGED streams
        ELSE /\ streams' = [streams EXCEPT ![writer.stream] =
                    StreamWrite(@, BufferGetValue(FrameOf(kind, Encode(q, n))))]
             /\ Suspend(t, o, "q_drain",
                        [LocInit EXCEPT !.ws = writer.stream, !.q = q, !.n = n,
                            !.notopen = NotOpen,
                            !.wrote = (streams'[writer.stream].out
                                         # streams[writer.stream].out)])

\* sendSync: query(MessageType.SYNC, ...)
Call_sendSync(t, q, n) ==
    /\ MayCall(t)
    /\ QueryStart(t, "sendSync", SYNC, q, n)
    /\ UNCHANGED <<host, username, conn>>

\* sendAsync: query(MessageType.ASYNC, ...)
Call_sendAsync(t, q, n) ==
    /\ MayCall(t)
    /\ QueryStart(t, "sendAsync", ASYNC, q, n)
    /\ UNCHANGED <<host, username, conn>>

\* QReader.read -> read_header -> _read_bytes(8): the reader awaits read(8)
StartRead(t, o) ==
    Suspend(t, o, "rd", [loc[t] EXCEPT !.rs = reader.stream, !.phase = "hdr",
                                       !.need = HEADER_LEN])

\* QWriter.write: drain() is over; sendAsync returns, sendSync goes on to receive
QDrainDone(t) ==
    /\ pc[t] = "q_drain"
    /\ streams[loc[t].ws].st # "closing"
    /\ IF DrainFails(streams[loc[t].ws])
       THEN Return(t, ResOf(t, "ConnectionResetError"))
       ELSE IF op[t] = "sendAsync"
       THEN Return(t, ResOf(t, "ok"))
       ELSE IF reader.stream = None
       THEN Return(t, ResOf(t, "AttributeError"))
       ELSE StartRead(t, op[t])
    /\ UNCHANGED <<host, username, conn, streams, nops>>

\* receive(), up to the first read of the reader
Call_receive(t) ==
    /\ MayCall(t)
    /\ IF reader.stream = None
       THEN Return(t, Result("receive", "AttributeError"))
       ELSE StartRead(t, "receive")
    /\ UNCHANGED <<host, username, conn, streams>>

\* ------------------------------------------------------- the frame reader
\* a decoder that takes every message for little-endian
HeaderLittleEndian(h) == "<"

\* read_header: endianness from byte 0
HeaderEndianness(h) == IF h[1] = 1 THEN "<" ELSE ">"

\* read_header: message_size = get_uint() + (message_size_ext << 32), as the
\* pair of its low 16 bits and the rest
HeaderSize(h) ==
    LET le == OrderLE(SubSeq(h, 5, 8), HeaderEndianness(h))
    IN  [hi |-> le[3] + 256 * le[4] + 65536 * h[4], lo |-> Lo16(le)]

\* message_size - k, Huge if it is 2^16 or more
Remaining(size, k) == IF size.hi > 0 THEN Huge ELSE size.lo - k

\* read_data: 4 if compression_mode == 1 else 8
ComprHeaderLen(compr) == IF compr = 1 THEN 4 ELSE 8

\* read_data: -8 + get_uint() (mode 1) or get_long() (signed), Huge from 2^16 - 8
UncompressedSize(data, compr, endianness) ==
    LET le == OrderLE(data, endianness)
    IN  IF compr # 1 /\ le[8] >= 128 THEN -1
        ELSE IF HiZero(le) THEN Lo16(le) - 8 ELSE Huge

\* the compression kernel: n bytes out of the compressed block
Uncompress(cdata, n) ==
    [i \in 1..n |-> IF cdata = <<>> THEN 0 ELSE cdata[((i - 1) % Len(cdata)) + 1]]

\* the message is assembled: receive returns it; sendSync returns its data if it
\* is a RESPONSE, and otherwise calls the writer without await and raises
Deliver_message(t, typ, payload, afterRead) ==
    IF op[t] = "receive" \/ typ = RESPONSE
    THEN /\ streams' = afterRead
         /\ ReturnFrom(t, [ResOf(t, "ok") EXCEPT !.val = payload])
    ELSE /\ streams' = [afterRead EXCEPT ![writer.stream] =
               NotAwaited(@, FrameOf(IF typ = ASYNC THEN ASYNC ELSE RESPONSE,
                                     <<Q_ERROR>>))]
         /\ ReturnFrom(t, [ResOf(t, "QReaderException") EXCEPT !.unexp = typ])

\* read_data, compressed: the size check comes after the block has been read
Deliver_compressed(t, cdata, usize, afterRead) ==
    IF usize <= 0 \/ usize >= Huge
    THEN /\ streams' = afterRead
         /\ ReturnFrom(t, ResOf(t, IF usize <= 0 THEN "QReaderException"
                                   ELSE "MemoryError"))
    ELSE Deliver_message(t, loc[t].type, Uncompress(cdata, usize), afterRead)

\* a read that drops the stream handles of the connection
ReadDropsConnection ==
    /\ s_reader' = None
    /\ s_writer' = None
    /\ UNCHANGED <<protocol_version, writer, reader>>

\* receive, QReader.read and what sendSync does with the message assign no
\* field of the connection, whether they return or raise
ReadKeepsConnection == UNCHANGED conn

\* _read_bytes: the awaited stream.read(length) returns k bytes; the reader goes
\* on to its next read, or the message is complete
RdDone(t) ==
    /\ pc[t] = "rd"
    /\ ReadReady(t)
    /\ \E k \in ReadCounts(streams[loc[t].rs], loc[t].need) :
       LET rs   == loc[t].rs
           S    == streams[rs]
           data == Take(S.inb, k)
           read == [streams EXCEPT ![rs] = AfterRead(t, S, k)]
           raise(e) == /\ ReturnFrom(t, ResOf(t, e))
                       /\ loc' = LocAfterRead(t, S, k, LocInit)
                       /\ streams' = read
           goon(l)  == /\ streams' = read
                       /\ loc' = LocAfterRead(t, S, k, [l EXCEPT !.woken = FALSE])
                       /\ UNCHANGED <<pc, op, res>>
           done     == loc' = LocAfterRead(t, S, k, LocInit)
       IN  IF S.exc
           THEN /\ ReturnFrom(t, ResOf(t, "ConnectionResetError"))
                /\ loc' = [loc EXCEPT ![t] = LocInit]
                /\ UNCHANGED streams
           ELSE IF data = <<>>
           THEN raise("QReaderException")
           ELSE IF loc[t].phase = "hdr"
           THEN IF Len(data) < HEADER_LEN
                THEN raise("struct.error")
                ELSE LET size == HeaderSize(data)
                         hdr  == [loc[t] EXCEPT !.endianness = HeaderEndianness(data),
                                     !.type = data[2], !.compr = data[3], !.size = size,
                                     !.header = data]
                     IN  IF data[3] > 0
                         THEN goon([hdr EXCEPT !.phase = "chdr",
                                               !.need = ComprHeaderLen(data[3])])
                         ELSE IF Remaining(size, HEADER_LEN) = 0
                         THEN Deliver_message(t, data[2], <<>>, read) /\ done
                         ELSE goon([hdr EXCEPT !.phase = "data",
                                               !.need = Remaining(size, HEADER_LEN)])
           ELSE IF loc[t].phase = "data"
           THEN Deliver_message(t, loc[t].type, data, read) /\ done
           ELSE IF loc[t].phase = "chdr"
           THEN IF Len(data) < ComprHeaderLen(loc[t].compr)
                THEN raise("struct.error")
                ELSE LET usize == UncompressedSize(data, loc[t].compr, loc[t].endianness)
                         rest  == Remaining(loc[t].size,
                                            HEADER_LEN + ComprHeaderLen(loc[t].compr))
                     IN  IF rest = 0
                         THEN Deliver_compressed(t, <<>>, usize, read) /\ done
                         ELSE goon([loc[t] EXCEPT !.phase = "cdata", !.need = rest,
                                                  !.usize = usize])
           ELSE Deliver_compressed(t, data, loc[t].usize, read) /\ done
    /\ ReadKeepsConnection
    /\ UNCHANGED <<host, username, nops>>

\* ------------------------------------------------------------ cancellation
\* the task of caller t is cancelled while it is suspended: CancelledError is
\* raised at the await.  Only _init_socket catches it (it clears the stream
\* fields and raises it again); a waiter of a stream is withdrawn
Cancel(t) ==
    /\ pc[t] # "idle"
    /\ IF pc[t] = "open_conn"
       THEN s_reader' = None /\ s_writer' = None
       ELSE UNCHANGED <<s_reader, s_writer>>
    /\ IF pc[t] \in {"hs_read", "rd"} /\ streams[loc[t].rs].waiter = t
       THEN streams' = [streams EXCEPT ![loc[t].rs].waiter = None]
       ELSE UNCHANGED streams
    /\ Return(t, ResOf(t, "CancelledError"))
    /\ UNCHANGED <<host, username, protocol_version, writer, reader, nops>>

\* ------------------------------------------- the peer and the event loop
\* feed_eof, set_exception: the stream's waiter is woken
Wake(S) ==
    IF S.waiter = None THEN loc ELSE [loc EXCEPT ![S.waiter].woken = TRUE]

\* the peer accepts the credentials and answers with one byte
PeerAccept(s, b) ==
    /\ streams[s].st = "open"
    /\ streams[s].hs = "none"
    /\ ~streams[s].eof
    /\ Len(streams[s].out) >= Len(HandshakeFrame)
    /\ streams' = [streams EXCEPT ![s].inb = @ \o <<b>>, ![s].hs = "byte",
                                  ![s].hsbyte = b]
    /\ UNCHANGED <<host, username, conn, pc, op, loc, res, nops>>

\* the peer closes the socket: read() returns no bytes once the buffer is empty
PeerClose(s) ==
    /\ streams[s].st = "open"
    /\ ~streams[s].eof
    /\ streams' = [streams EXCEPT ![s].eof = TRUE, ![s].waiter = None,
                                  ![s].hs = IF @ = "none" THEN "eof" ELSE @]
    /\ loc' = Wake(streams[s])
    /\ UNCHANGED <<host, username, conn, pc, op, res, nops>>

\* the connection is lost with an error
PeerReset(s) ==
    /\ streams[s].st \in {"open", "closing"}
    /\ streams' = [streams EXCEPT ![s].st = "closed", ![s].exc = TRUE,
                                  ![s].waiter = None]
    /\ loc' = Wake(streams[s])
    /\ UNCHANGED <<host, username, conn, pc, op, res, nops>>

\* the peer answers its next SYNC request with a message of kind k that carries
\* the request's payload
PeerRespond(s, k) ==
    /\ streams[s].st = "open"
    /\ streams[s].hs = "byte"
    /\ ~streams[s].eof
    /\ streams[s].answered < Len(SyncRequests(streams[s]))
    /\ streams' = [streams EXCEPT
          ![s].inb = @ \o FrameOf(k, SyncRequests(streams[s])[streams[s].answered + 1].payload),
          ![s].answered = @ + 1]
    /\ UNCHANGED <<host, username, conn, pc, op, loc, res, nops>>

\* the event loop finishes a close(): connection_lost, EOF for the reader
LoopCloses(s) ==
    /\ streams[s].st = "closing"
    /\ streams' = [streams EXCEPT ![s].st = "closed", ![s].eof = TRUE,
                                  ![s].waiter = None]
    /\ loc' = Wake(streams[s])
    /\ UNCHANGED <<host, username, conn, pc, op, res, nops>>

\* ---------------------------------------------------------- specifications
\* the steps of open() and close()
StepOpen(t) ==
    \/ Call_open(t)
    \/ InitSocketDone(t)
    \/ InitSocketFail(t)
    \/ HsDrainDone(t)
    \/ AwaitRead(t)
    \/ HsReadDone(t)
    \/ Call_close(t)
    \/ WaitClosedDone(t)
    \/ Cancel(t)

\* the steps of the queries
StepQuery(t) ==
    \/ \E q \in Queries, n \in ParamCounts : Call_sendSync(t, q, n)
    \/ \E q \in Queries, n \in ParamCounts : Call_sendAsync(t, q, n)
    \/ QDrainDone(t)
    \/ Call_receive(t)
    \/ RdDone(t)

EnvOpen ==
    \/ \E s \in StreamIds, b \in PeerBytes : PeerAccept(s, b)
    \/ \E s \in StreamIds : PeerClose(s)
    \/ \E s \in StreamIds : PeerReset(s)
    \/ \E s \in StreamIds : LoopCloses(s)

EnvQuery == \E s \in StreamIds, k \in MsgKinds : PeerRespond(s, k)

\* one caller, its calls one after another, any call of the API
Next == StepOpen(1) \/ StepQuery(1) \/ EnvOpen \/ EnvQuery

Spec == Init /\ [][Next]_vars

\* one caller that opens and closes the connection
NextOpen == StepOpen(1) \/ EnvOpen

SpecOpen == Init /\ [][NextOpen]_vars

\* one caller that opens the connection and then sends the query 1 with 0, 8
\* or 9 parameters, with a peer that accepts the handshake and answers every
\* request
StepQuery1(t) ==
    \/ Call_open(t)
    \/ InitSocketDone(t)
    \/ InitSocketFail(t)
    \/ HsDrainDone(t)
    \/ AwaitRead(t)
    \/ HsReadDone(t)
    \/ \E n \in ParamCounts : Call_sendSync(t, 1, n)
    \/ \E n \in ParamCounts : Call_sendAsync(t, 1, n)
    \/ QDrainDone(t)
    \/ RdDone(t)

EnvQuery1 ==
    \/ \E s \in StreamIds : PeerAccept(s, MAX_PROTOCOL_VERSION)
    \/ EnvQuery

NextQuery == StepQuery1(1) \/ EnvQuery1

SpecQuery == Init /\ [][NextQuery]_vars

\* two callers on one connection whose calls interleave at the awaits: they
\* open it and send synchronous queries, caller t the query t, to a peer that
\* accepts the handshake and stays connected
StepConc(t) ==
    \/ Call_open(t)
    \/ InitSocketDone(t)
    \/ InitSocketFail(t)
    \/ HsDrainDone(t)
    \/ AwaitRead(t)
    \/ HsReadDone(t)
    \/ Call_sendSync(t, t, 0)
    \/ QDrainDone(t)
    \/ RdDone(t)

EnvConc ==
    \/ \E s \in StreamIds : PeerAccept(s, MAX_PROTOCOL_VERSION)
    \/ \E s \in StreamIds, k \in MsgKinds : PeerRespond(s, k)

NextConc == (\E t \in Tasks : StepConc(t)) \/ EnvConc

SpecConc == Init /\ [][NextConc]_vars

\* ------------------------------------------------------------ properties
\* the call caller 1 made last was an open() that is over
OpenDone == res[1].op = "open" /\ pc[1] = "idle"

\* the callers inside the write-then-read cycle of a sendSync
InFlight == {t \in Tasks : op[t] = "sendSync" /\ pc[t] \in {"q_drain", "rd"}}

\* the bytes of every frame, one after another
RECURSIVE FramesBytes(_)
FramesBytes(fs) ==
    IF fs = <<>> THEN <<>>
    ELSE FrameOf(Head(fs).kind, Head(fs).payload) \o FramesBytes(Tail(fs))

\* C1: when every handshake read of an open() returned 0 bytes, the open()
\* fails with QAuthenticationException and is_connected() is false afterward
C1_DeniedHandshakeRaisesAuthentication ==
    (/\ OpenDone
     /\ res[1].hsreads # <<>>
     /\ \A i \in 1..Len(res[1].hsreads) : res[1].hsreads[i] = 0)
    => (res[1].err = "QAuthenticationException" /\ ~is_connected)

\* C2: when the first handshake read of an open() returned 0 bytes, the legacy
\* retry is made on a re-established transport, and if its read returns 1 byte
\* the open() returns without error, is_connected() is true, the version is
\* the minimum of the retry byte and the client maximum, and the writer and
\* the reader are bound to the re-established transport
C2_LegacyRetrySucceeds ==
    (/\ OpenDone
     /\ res[1].hsreads # <<>>
     /\ res[1].hsreads[1] = 0)
    => /\ Len(res[1].hsreads) = 2
       /\ res[1].hsreads[2] = 1
            => /\ res[1].err = "ok"
               /\ is_connected
               /\ Cardinality(res[1].mine) = 2
               /\ writer.stream = s_writer
               /\ reader.stream = s_reader
               /\ protocol_version = Min(streams[s_writer].hsbyte, MAX_PROTOCOL_VERSION)

\* C3: when the first handshake read of an open() returned exactly 1 byte, the
\* open() returns without error and without a retry (one read, one transport,
\* on which only the version-offering frame was written), is_connected() is
\* true, and protocol_version is the minimum of the offered maximum version and
\* the peer's byte
C3_HandshakeNegotiatesMinimum ==
    (OpenDone /\ res[1].hsreads # <<>> /\ res[1].hsreads[1] = 1)
    => /\ res[1].err = "ok"
       /\ res[1].hsreads = <<1>>
       /\ is_connected
       /\ res[1].mine = {s_writer}
       /\ streams[s_writer].out = HandshakeFrame
       /\ writer = [stream |-> s_writer, ver |-> protocol_version]
       /\ reader.stream = s_reader
       /\ protocol_version = IF streams[s_writer].hsbyte < MAX_PROTOCOL_VERSION
                             THEN streams[s_writer].hsbyte
                             ELSE MAX_PROTOCOL_VERSION

\* an open() succeeded against a peer whose byte is above the offered maximum
C3_Witness ==
    /\ OpenDone
    /\ res[1].hsreads = <<1>>
    /\ res[1].err = "ok"
    /\ streams[s_writer].hsbyte > MAX_PROTOCOL_VERSION
    /\ protocol_version = MAX_PROTOCOL_VERSION

\* C4: after a close() that tore the stream down has completed, the stream
\* handle is cleared: is_connected() is false
C4_ClosedIsNotConnected ==
    (/\ res[1].op = "close"
     /\ pc[1] = "idle"
     /\ res[1].touched
     /\ res[1].err = "ok")
    => ~is_connected

\* C5: close() is idempotent: no stream is operated on by more than one close()
C5_CloseIsIdempotent ==
    \A s \in StreamIds : streams[s].ucloses <= 1

\* C6: a sendSync or sendAsync made while the connection is not open (never
\* opened, closed by close(), left by a failed handshake) fails with
\* QConnectionException and writes no bytes to any stream
C6_QueryNotOpenRaisesConnection ==
    (/\ res[1].op \in {"sendSync", "sendAsync"}
     /\ pc[1] = "idle"
     /\ res[1].notopen)
    => (res[1].err = "QConnectionException" /\ ~res[1].wrote)

\* C7: when sendSync raises QReaderException for a message whose kind is not
\* RESPONSE, the bytes of an exception-valued frame (ASYNC if the message was
\* ASYNC, else RESPONSE) are on the wire, the last frame written
C7_UnexpectedKindNotifiesPeer ==
    (/\ res[1].op = "sendSync"
     /\ pc[1] = "idle"
     /\ res[1].unexp # -1)
    => LET fs == Requests(streams[writer.stream])
       IN  /\ writer.stream # None
           /\ fs # <<>>
           /\ fs[Len(fs)] = [kind |-> IF res[1].unexp = ASYNC THEN ASYNC ELSE RESPONSE,
                             payload |-> <<Q_ERROR>>]

\* C8: under every interleaving of two sendSync calls at their awaits, the
\* bytes on the wire after the handshake frame are a concatenation of whole
\* frames, each a SYNC header followed by the payload of one caller's query
C8_FramesNeverInterleave ==
    \A s \in StreamIds :
        LET W  == Drop(streams[s].out, Len(HandshakeFrame))
            fs == Requests(streams[s])
        IN  /\ FramesLen(fs) = Len(W)
            /\ FramesBytes(fs) = W
            /\ \A i \in 1..Len(fs) :
                  /\ fs[i].kind = SYNC
                  /\ \E t \in Tasks : fs[i].payload = Encode(t, 0)

\* both callers are inside sendSync and both their frames are on the wire
C8_Witness ==
    /\ InFlight = Tasks
    /\ \E s \in StreamIds :
          /\ Len(Requests(streams[s])) = 2
          /\ Requests(streams[s])[1].payload # Requests(streams[s])[2].payload

\* C9: access to the write-then-read cycles of one connection is serialized:
\* at most one sendSync is between its write and the end of its read, and a
\* sendSync that returns returns the response to its own request
C9_OneCycleInFlight ==
    /\ Cardinality(InFlight) <= 1
    /\ \A t \in Tasks :
          (res[t].op = "sendSync" /\ res[t].err = "ok")
          => res[t].val = Encode(res[t].q, res[t].n)

\* C10: when an open() fails, every transport the call established has been
\* closed before the error reaches the caller
C10_FailedOpenClosesTransports ==
    (OpenDone /\ res[1].err # "ok")
    => \A s \in res[1].mine : streams[s].st # "open"

\* C11: a sendSync or sendAsync made on an open connection with more than 8
\* parameters fails with QWriterException, one with 8 or fewer does not, and no
\* frame carrying more than 8 parameters is ever on the wire
C11_TooManyParametersRejected ==
    /\ (/\ res[1].op \in {"sendSync", "sendAsync"}
        /\ pc[1] = "idle"
        /\ ~res[1].notopen)
       => (res[1].err = "QWriterException" <=> res[1].n > MAX_PARAMETERS)
    /\ \A s \in StreamIds : \A i \in 1..Len(Requests(streams[s])) : \A q \in Queries :
          Requests(streams[s])[i].payload # Encode(q, MAX_PARAMETERS + 1)

\* a query with 9 parameters on an open connection was rejected, after one
\* with 8 parameters had put its frame on the wire
C11_Witness ==
    /\ res[1].op \in {"sendSync", "sendAsync"}
    /\ pc[1] = "idle"
    /\ ~res[1].notopen
    /\ res[1].n = MAX_PARAMETERS + 1
    /\ res[1].err = "QWriterException"
    /\ \E q \in Queries : \E i \in 1..Len(Requests(streams[s_writer])) :
          Requests(streams[s_writer])[i].payload = Encode(q, MAX_PARAMETERS)

\* caller 1 calls open() in this step
OpenCalled ==
    /\ pc[1] = "idle"
    /\ nops' = nops + 1
    /\ (op'[1] = "open" \/ res'[1].op = "open")

\* C12: an open() called while the connection is open returns at once without
\* error, establishes no transport, sends no byte, and leaves the stream
\* handles, protocol_version, the writer and the reader unchanged
C12_OpenIsNoOpWhenOpen ==
    [][(OpenCalled /\ ~NotOpen)
       => (/\ pc'[1] = "idle"
           /\ res'[1].err = "ok"
           /\ res'[1].mine = {}
           /\ UNCHANGED <<conn, streams>>)]_vars

\* a second open() has returned on the connection the first one opened
C12_Witness ==
    /\ OpenDone
    /\ nops >= 2
    /\ res[1].err = "ok"
    /\ res[1].mine = {}
    /\ ~NotOpen
    /\ Len(streams) = 1
    /\ streams[1].out = HandshakeFrame
    /\ streams[1].st = "open"

\* C13: the calls of one caller take effect in the order they were issued: the
\* frame of the query that has just been written is the last one on the wire,
\* and a sendSync that returns returns the payload of the response to its own
\* request (the peer answers the k-th request with the k-th response, which
\* carries the request's payload)
C13_SequentialCallsKeepOrder ==
    /\ (pc[1] = "q_drain" /\ loc[1].wrote)
       => LET fs == Requests(streams[loc[1].ws])
          IN  /\ fs # <<>>
              /\ fs[Len(fs)] = [kind |-> IF op[1] = "sendSync" THEN SYNC ELSE ASYNC,
                                payload |-> Encode(loc[1].q, loc[1].n)]
    /\ (res[1].op = "sendSync" /\ pc[1] = "idle" /\ res[1].err = "ok")
       => res[1].val = Encode(res[1].q, res[1].n)

\* the messages the peer has sent on the stream of the reader: one per SYNC
\* request it answered, whole, with the payload of the request
PeerPayloads ==
    LET S == streams[reader.stream]
    IN  {SyncRequests(S)[i].payload : i \in 1..S.answered}

\* C14: a stream-backed read takes no short read for a complete result: a
\* receive or sendSync never fails decoding a header of fewer than 8 bytes, and
\* the message it returns carries the whole payload of a message the peer sent
C14_NoShortReadAccepted ==
    (res[1].op \in {"receive", "sendSync"} /\ pc[1] = "idle")
    => /\ res[1].err # "struct.error"
       /\ res[1].err = "ok" => res[1].val \in PeerPayloads

EncodeHeader(e, kind, compr, size) ==
    <<IF e = "<" THEN 1 ELSE 0, kind, compr, size.hi \div 65536>>
    \o OrderLE(<<size.lo % 256, size.lo \div 256, size.hi % 256, (size.hi \div 256) % 256>>, e)

\* the uncompressed-size field of a compressed message: 4 bytes in mode 1,
\* 8 bytes otherwise, in the byte order of the message
EncodeField(e, compr, field) ==
    OrderLE([i \in 1..ComprHeaderLen(compr) |-> IF i = 1 THEN field ELSE 0], e)

Endians == {"<", ">"}

\* the sizes the peer declares for the uncompressed messages it sends, with
\* the payload bytes it sends after the header: whole small messages, and the
\* start of messages of 2^16, 2^32 + 9 and 2^33 + 2^16 + 10 bytes
PlainBodies ==
    {<<[hi |-> 0, lo |-> 8], <<>>>>,
     <<[hi |-> 0, lo |-> 9], <<5>>>>,
     <<[hi |-> 0, lo |-> 10], <<5, 6>>>>,
     <<[hi |-> 1, lo |-> 0], <<5>>>>,
     <<[hi |-> 65536, lo |-> 9], <<5>>>>,
     <<[hi |-> 131073, lo |-> 10], <<5, 6>>>>}

\* the uncompressed-size fields and the compressed blocks of the compressed
\* messages the peer sends
ComprFields == {7, 8, 9, 10}

ComprBlocks == {<<>>, <<7>>, <<7, 9>>}

\* the messages of the peer
Messages ==
    {[e |-> e, kind |-> k, compr |-> 0, size |-> pb[1], field |-> 0, body |-> pb[2]] :
        e \in Endians, k \in MsgKinds, pb \in PlainBodies}
    \cup
    {[e |-> e, kind |-> RESPONSE, compr |-> c,
      size |-> [hi |-> 0, lo |-> HEADER_LEN + ComprHeaderLen(c) + Len(b)],
      field |-> f, body |-> b] :
        e \in Endians, c \in {1, 2}, f \in ComprFields, b \in ComprBlocks}

\* the bytes of a message on the wire
MessageBytes(m) ==
    EncodeHeader(m.e, m.kind, m.compr, m.size)
    \o (IF m.compr > 0 THEN EncodeField(m.e, m.compr, m.field) ELSE <<>>)
    \o m.body

\* after the handshake the peer sends one message of its own accord
PeerSend(s, m) ==
    /\ streams[s].st = "open"
    /\ streams[s].hs = "byte"
    /\ ~streams[s].eof
    /\ streams[s].sent = <<>>
    /\ streams' = [streams EXCEPT ![s].inb = @ \o MessageBytes(m),
                                  ![s].sent = Append(@, m)]
    /\ UNCHANGED <<host, username, conn, pc, op, loc, res, nops>>

\* one caller that opens the connection and receives, with a peer that accepts
\* the handshake, sends one message and may hang up
StepRead(t) ==
    \/ Call_open(t)
    \/ InitSocketDone(t)
    \/ InitSocketFail(t)
    \/ HsDrainDone(t)
    \/ AwaitRead(t)
    \/ HsReadDone(t)
    \/ Call_receive(t)
    \/ RdDone(t)

EnvRead ==
    \/ \E s \in StreamIds : PeerAccept(s, MAX_PROTOCOL_VERSION)
    \/ \E s \in StreamIds, m \in Messages : PeerSend(s, m)
    \/ \E s \in StreamIds : PeerClose(s)

NextRead == StepRead(1) \/ EnvRead

SpecRead == Init /\ [][NextRead]_vars

\* caller 1 has decoded a header and is reading the data of the message
HeaderDecoded == pc[1] = "rd" /\ loc[1].phase \in {"data", "chdr", "cdata"}

\* C17: when the 8 bytes read_header decoded are the header of a message as
\* the peer encodes it, in either byte order, the decoded kind, compression
\* mode and size (the 32-bit field plus the extension byte << 32) are those of
\* the message
C17_HeaderRoundTrip ==
    HeaderDecoded
    => \A m \in Messages :
          loc[1].header = EncodeHeader(m.e, m.kind, m.compr, m.size)
          => /\ loc[1].endianness = m.e
             /\ loc[1].type = m.kind
             /\ loc[1].compr = m.compr
             /\ loc[1].size = m.size

\* the header of a big-endian message of more than 2^32 bytes has been decoded
C17_Witness ==
    /\ HeaderDecoded
    /\ \E s \in StreamIds : \E i \in 1..Len(streams[s].sent) :
          LET m == streams[s].sent[i]
          IN  /\ loc[1].header = EncodeHeader(m.e, m.kind, m.compr, m.size)
              /\ m.e = ">"
              /\ m.size.hi >= 65536
              /\ loc[1].size = m.size

\* C16: a receive whose read_header decoded the header of a compressed message
\* of the peer, with the uncompressed-size field f, fails with
\* QReaderException if f - 8 <= 0 and otherwise returns the f - 8 bytes the
\* compression kernel makes of the whole compressed block
C16_CompressedReadData ==
    (res[1].op = "receive" /\ pc[1] = "idle")
    => \A s \in StreamIds : \A i \in 1..Len(streams[s].sent) :
          LET m == streams[s].sent[i]
          IN  (/\ m.compr > 0
               /\ res[1].header = EncodeHeader(m.e, m.kind, m.compr, m.size))
              => IF m.field - 8 <= 0
                 THEN res[1].err = "QReaderException"
                 ELSE /\ res[1].err = "ok"
                      /\ Len(res[1].val) = m.field - 8
                      /\ res[1].val = Uncompress(m.body, m.field - 8)

\* the compressed messages of the peer whose uncompressed size is not positive
Undersized ==
    {m \in Messages : m.compr > 0 /\ m.field <= 8 /\ m.e = "<" /\ m.body = <<7>>}

\* one caller that opens the connection, sends the query 1 synchronously with 0
\* or 9 parameters and receives, with a peer that accepts the handshake,
\* answers with any kind of message, sends an undersized compressed message
\* and may hang up
StepErr(t) ==
    \/ StepRead(t)
    \/ \E n \in {0, MAX_PARAMETERS + 1} : Call_sendSync(t, 1, n)
    \/ QDrainDone(t)

EnvErr ==
    \/ \E s \in StreamIds : PeerAccept(s, MAX_PROTOCOL_VERSION)
    \/ \E s \in StreamIds, m \in Undersized : PeerSend(s, m)
    \/ \E s \in StreamIds : PeerClose(s)
    \/ EnvQuery

NextErr == StepErr(1) \/ EnvErr

SpecErr == Init /\ [][NextErr]_vars

\* a call of caller 1 raises QWriterException or QReaderException in this step
ProtocolErrorRaised ==
    /\ pc'[1] = "idle"
    /\ res'[1] # res[1]
    /\ res'[1].op \in {"sendSync", "sendAsync", "receive"}
    /\ res'[1].err \in {"QWriterException", "QReaderException"}

\* C18: a step in which sendSync, sendAsync or receive raises QWriterException
\* or QReaderException on a connected connection leaves it connected, with the
\* stream handles, protocol_version, the writer and the reader unchanged
C18_ProtocolErrorLeavesOpen ==
    [][(is_connected /\ ProtocolErrorRaised)
       => (is_connected' /\ UNCHANGED conn)]_vars

\* a receive has raised QReaderException on reading nothing from a peer that
\* hung up, and the connection still counts as connected
C18_Witness ==
    /\ pc[1] = "idle"
    /\ res[1].op \in {"sendSync", "receive"}
    /\ res[1].err = "QReaderException"
    /\ res[1].header = <<>>
    /\ is_connected
    /\ streams[s_writer].eof
    /\ writer.stream = s_writer

\* C19: after a call of open, sendSync, sendAsync or receive was cancelled at
\* an await, the connection is unusable until it is opened again:
\* is_connected() is false and the transport the writer is bound to is closed
C19_CancelledIsUnusable ==
    (/\ pc[1] = "idle"
     /\ res[1].err = "CancelledError"
     /\ res[1].op \in {"open", "sendSync", "sendAsync", "receive"})
    => /\ ~is_connected
       /\ \A s \in res[1].mine : streams[s].st # "open"
       /\ writer.stream # None => streams[writer.stream].st # "open"

\* C20: whenever is_connected() is true, the writer and the reader are bound
\* to the current stream handles and the stream is not closed, also while
\* open() is suspended in the handshake and after it failed
C20_ConnectedHasUsableWriter ==
    is_connected
    => /\ writer.stream = s_writer
       /\ reader.stream = s_reader
       /\ streams[s_writer].st = "open"

\* C21: when two open() calls on one connection interleave at their awaits,
\* one transport is established and one handshake performed, and every
\* established transport that is open is the one the connection holds
C21_InterleavedOpenEstablishesOne ==
    /\ Len(streams) <= 1
    /\ \A s \in StreamIds : streams[s].st = "open" => s = s_writer

====
